---- MODULE Spec2Model ----
(***************************************************************************)
(* The anchor-escrow program: make (open an escrow and fund its vault),    *)
(* take (pay the maker and receive the vault) and refund (the maker takes  *)
(* the vault back).  Every instruction is one atomic transaction: account  *)
(* validation, the handler and the exit step either all commit or the      *)
(* ledger is left as it was.                                               *)
(***************************************************************************)
EXTENDS Integers, Sequences, FiniteSets, TLC

\* ------------------------------------------------------------------ bounds
MaxSeed == 0        \* seeds range over 0..MaxSeed
MaxAmount == 1      \* deposit and receive arguments range over 0..MaxAmount
MaxOpen == 1        \* escrows open at the same time
InitBalance == 1    \* what a funded token account holds at the start
MaxPairSeed == 1    \* seeds of SpecPair range over 0..MaxPairSeed
MaxPairOpen == 2    \* escrows open at the same time in SpecPair

Users == {"alice", "bob", "carol"}
Mints == {"TokenX", "TokenY"}
Seeds == 0..MaxSeed
PairMakers == {"alice"}
PairUsers == {"alice", "bob"}
PairSeeds == 0..MaxPairSeed
Amounts == 0..MaxAmount

VARIABLES
    escrows,    \* escrow address -> Escrow, for the escrow accounts that exist
    tokens,     \* token account address -> amount, for the token accounts that exist
    deposited,  \* escrow address -> the deposit argument of the make that opened it
    payer,      \* escrow address -> who paid the lamports its vault was created with
    last        \* the instruction processed last and how it ended

vars == <<escrows, tokens, deposited, payer, last>>

\* The accounts an instruction reads and writes.
Ledger == [escrows |-> escrows, tokens |-> tokens]

\* ------------------------------------------------------- address derivation
RECURSIVE le_bytes(_, _)
le_bytes(n, k) == IF k = 0 THEN <<>> ELSE <<n % 256>> \o le_bytes(n \div 256, k - 1)

\* u64::to_le_bytes
to_le_bytes(seed) == le_bytes(seed, 8)

\* Seeds that leave the seed argument out.
escrow_seeds_of_maker(maker, seed) == <<"escrow", maker, to_le_bytes(0)>>

\* seeds = [b"escrow", maker.key().as_ref(), seed.to_le_bytes().as_ref()]
escrow_seeds(maker, seed) == <<"escrow", maker, to_le_bytes(seed)>>

\* The address the seeds and a bump hash to.
create_program_address(seeds, bump) ==
    seeds[1] \o "|" \o seeds[2] \o "|" \o ToString(seeds[3]) \o "|" \o ToString(bump)

\* The canonical bump of the seeds: a fixed function of them, at most 255.
canonical_bump(seeds) == 255 - ((seeds[3][1] + Len(seeds[2])) % 3)

find_program_address(seeds) ==
    [address |-> create_program_address(seeds, canonical_bump(seeds)),
     bump |-> canonical_bump(seeds)]

\* The escrow address and bump of every maker and seed.
Pda == [m \in Users, s \in Seeds \cup PairSeeds |-> find_program_address(escrow_seeds(m, s))]

EscrowKeys == {Pda[m, s].address : m \in Users, s \in Seeds}
PairKeys == {Pda[m, s].address : m \in PairMakers, s \in PairSeeds}

\* The associated token account of an owner for a mint.
associated_token(authority, mint) == <<authority, mint>>

\* ------------------------------------------------------------ token program
Ok == "Ok"

\* transfer_checked: the source must hold the amount; a transfer of an account to
\* itself checks the funds and moves nothing.
transfer_checked(tok, from, to, amount) ==
    IF tok[from] < amount
    THEN [err |-> "InsufficientFunds", tokens |-> tok]
    ELSE IF from = to
    THEN [err |-> Ok, tokens |-> tok]
    ELSE [err |-> Ok, tokens |-> [tok EXCEPT ![from] = @ - amount, ![to] = @ + amount]]

\* A close that leaves the emptied token account in place.
close_account_kept(tok, account) ==
    IF tok[account] # 0
    THEN [err |-> "NonNativeHasBalance", tokens |-> tok]
    ELSE [err |-> Ok, tokens |-> tok]

\* close_account: only an empty token account can be closed.
close_account(tok, account) ==
    IF tok[account] # 0
    THEN [err |-> "NonNativeHasBalance", tokens |-> tok]
    ELSE [err |-> Ok, tokens |-> [a \in DOMAIN tok \ {account} |-> tok[a]]]

\* init of a token account: the new account holds nothing.
init_token(tok, account) == (account :> 0) @@ tok

\* init_if_needed of a token account
init_if_needed(tok, account) ==
    IF account \in DOMAIN tok THEN tok ELSE init_token(tok, account)

\* An instruction that returns an error leaves the ledger l as it was.
Rejected(l, err) == [err |-> err, escrows |-> l.escrows, tokens |-> l.tokens]
Accepted(esc, tok) == [err |-> Ok, escrows |-> esc, tokens |-> tok]

\* ---------------------------------------------------------------------- make
\* A deposit that moves nothing.
make_deposit_nothing(tok, maker_ata_a, vault, deposit) ==
    transfer_checked(tok, maker_ata_a, vault, 0)

\* payer = maker on Make::vault
vault_payer(maker) == maker

\* Make::deposit
make_deposit(tok, maker_ata_a, vault, deposit) ==
    transfer_checked(tok, maker_ata_a, vault, deposit)

\* Make::save_escrow
save_escrow(esc, key, maker, mint_a, mint_b, seed, receive, bump) ==
    (key :> [seed |-> seed, maker |-> maker, mint_a |-> mint_a, mint_b |-> mint_b,
             receive |-> receive, bump |-> bump]) @@ esc

\* A handler that refuses a price of 0 and a trade of a mint for itself.
make_handler_validated(l, tok, key, maker, mint_a, mint_b, seed, deposit, receive, bump) ==
    LET d == make_deposit(tok, associated_token(maker, mint_a),
                          associated_token(key, mint_a), deposit)
    IN  IF receive = 0 \/ mint_a = mint_b THEN Rejected(l, "InvalidTerms")
        ELSE IF d.err # Ok THEN Rejected(l, d.err)
        ELSE Accepted(save_escrow(l.escrows, key, maker, mint_a, mint_b, seed, receive, bump),
                      d.tokens)

\* A handler that saves the escrow although the deposit failed.
make_handler_unfunded(l, tok, key, maker, mint_a, mint_b, seed, deposit, receive, bump) ==
    LET d == make_deposit(tok, associated_token(maker, mint_a),
                          associated_token(key, mint_a), deposit)
    IN  Accepted(save_escrow(l.escrows, key, maker, mint_a, mint_b, seed, receive, bump),
                 d.tokens)

\* The handler of make, on the accounts the Make context validated and created.
make_handler(l, tok, key, maker, mint_a, mint_b, seed, deposit, receive, bump) ==
    LET d == make_deposit(tok, associated_token(maker, mint_a),
                          associated_token(key, mint_a), deposit)
    IN  IF d.err # Ok THEN Rejected(l, d.err)
        ELSE Accepted(save_escrow(l.escrows, key, maker, mint_a, mint_b, seed, receive, bump),
                      d.tokens)

\* A Make context that does not require the escrow address to be free.
make_overwrite(l, maker, seed, mint_a, mint_b, deposit, receive) ==
    LET pda == Pda[maker, seed]
        key == pda.address
        maker_ata_a == associated_token(maker, mint_a)
        vault == associated_token(key, mint_a)
    IN  IF maker_ata_a \notin DOMAIN l.tokens THEN Rejected(l, "AccountNotInitialized")
        ELSE IF vault \in DOMAIN l.tokens THEN Rejected(l, "AccountAlreadyInUse")
        ELSE make_handler(l, init_token(l.tokens, vault), key, maker, mint_a, mint_b,
                          seed, deposit, receive, pda.bump)

\* The Make context: maker_ata_a is loaded, then escrow and vault are created.
make(l, maker, seed, mint_a, mint_b, deposit, receive) ==
    LET pda == Pda[maker, seed]
        key == pda.address
        maker_ata_a == associated_token(maker, mint_a)
        vault == associated_token(key, mint_a)
    IN  IF maker_ata_a \notin DOMAIN l.tokens THEN Rejected(l, "AccountNotInitialized")
        ELSE IF key \in DOMAIN l.escrows THEN Rejected(l, "AccountAlreadyInUse")
        ELSE IF vault \in DOMAIN l.tokens THEN Rejected(l, "AccountAlreadyInUse")
        ELSE make_handler(l, init_token(l.tokens, vault), key, maker, mint_a, mint_b,
                          seed, deposit, receive, pda.bump)

\* ---------------------------------------------------------------------- take
\* A deposit that moves nothing.
take_deposit_unpaid(tok, e, taker_ata_b, maker_ata_b) == [err |-> Ok, tokens |-> tok]

\* A deposit that asks the taker for twice the price.
take_deposit_twice(tok, e, taker_ata_b, maker_ata_b) ==
    transfer_checked(tok, taker_ata_b, maker_ata_b, 2 * e.receive)

\* Take::deposit
take_deposit(tok, e, taker_ata_b, maker_ata_b) ==
    transfer_checked(tok, taker_ata_b, maker_ata_b, e.receive)

\* A withdrawal that closes the vault with what it holds.
withdraw_and_close_vault_discard(tok, vault, taker_ata_a, amount) ==
    [err |-> Ok, tokens |-> [a \in DOMAIN tok \ {vault} |-> tok[a]]]

\* Take::withdraw_and_close_vault; `amount` is self.vault.amount
withdraw_and_close_vault(tok, vault, taker_ata_a, amount) ==
    LET w == transfer_checked(tok, vault, taker_ata_a, amount)
    IN  IF w.err # Ok THEN w ELSE close_account(w.tokens, vault)

\* destination: self.taker of the CloseAccount of the vault: the vault's lamports
\* go to the taker.
take_close_destination(taker, maker) == taker

\* A close that leaves the escrow account in place.
close_escrow_kept(esc, key) == esc

\* close = maker on the escrow account, applied when the handler has returned Ok
close_escrow(esc, key) == [k \in DOMAIN esc \ {key} |-> esc[k]]

\* A handler that empties the vault before it collects the payment.
take_handler_release_first(l, tok, key, taker, maker, mint_a, mint_b) ==
    LET e == l.escrows[key]
        vault == associated_token(key, mint_a)
        w == withdraw_and_close_vault(tok, vault, associated_token(taker, mint_a),
                                      l.tokens[vault])
    IN  IF w.err # Ok THEN Rejected(l, w.err)
        ELSE LET d == take_deposit(w.tokens, e, associated_token(taker, mint_b),
                                   associated_token(maker, mint_b))
             IN  IF d.err # Ok THEN Rejected(l, d.err)
                 ELSE Accepted(close_escrow(l.escrows, key), d.tokens)

\* A handler that leaves the escrow account open.
take_handler_keep_open(l, tok, key, taker, maker, mint_a, mint_b) ==
    LET e == l.escrows[key]
        vault == associated_token(key, mint_a)
        d == take_deposit(tok, e, associated_token(taker, mint_b),
                          associated_token(maker, mint_b))
    IN  IF d.err # Ok THEN Rejected(l, d.err)
        ELSE LET w == withdraw_and_close_vault(d.tokens, vault,
                                               associated_token(taker, mint_a),
                                               l.tokens[vault])
             IN  IF w.err # Ok THEN Rejected(l, w.err)
                 ELSE Accepted(l.escrows, w.tokens)

\* The handler of take, on the accounts the Take context validated and created.
take_handler(l, tok, key, taker, maker, mint_a, mint_b) ==
    LET e == l.escrows[key]
        vault == associated_token(key, mint_a)
        d == take_deposit(tok, e, associated_token(taker, mint_b),
                          associated_token(maker, mint_b))
    IN  IF d.err # Ok THEN Rejected(l, d.err)
        ELSE LET w == withdraw_and_close_vault(d.tokens, vault,
                                               associated_token(taker, mint_a),
                                               l.tokens[vault])
             IN  IF w.err # Ok THEN Rejected(l, w.err)
                 ELSE Accepted(close_escrow(l.escrows, key), w.tokens)

\* A has_one that accepts any mint_b.
take_has_one_any_mint_b(e, maker, mint_a, mint_b) ==
    e.maker = maker /\ e.mint_a = mint_a

\* has_one = maker, has_one = mint_a, has_one = mint_b
take_has_one(e, maker, mint_a, mint_b) ==
    e.maker = maker /\ e.mint_a = mint_a /\ e.mint_b = mint_b

\* The Take context: taker_ata_b, escrow and vault are loaded, taker_ata_a and
\* maker_ata_b are created if needed, then the constraints of escrow are checked.
take(l, taker, maker, mint_a, mint_b, key) ==
    IF associated_token(taker, mint_b) \notin DOMAIN l.tokens
    THEN Rejected(l, "AccountNotInitialized")
    ELSE IF key \notin DOMAIN l.escrows THEN Rejected(l, "AccountNotInitialized")
    ELSE IF associated_token(key, mint_a) \notin DOMAIN l.tokens
    THEN Rejected(l, "AccountNotInitialized")
    ELSE IF ~take_has_one(l.escrows[key], maker, mint_a, mint_b)
    THEN Rejected(l, "ConstraintHasOne")
    ELSE IF create_program_address(escrow_seeds(maker, l.escrows[key].seed),
                                   l.escrows[key].bump) # key
    THEN Rejected(l, "ConstraintSeeds")
    ELSE take_handler(l,
                      init_if_needed(init_if_needed(l.tokens, associated_token(taker, mint_a)),
                                     associated_token(maker, mint_b)),
                      key, taker, maker, mint_a, mint_b)

\* -------------------------------------------------------------------- refund
\* A refund that closes the vault without emptying it.
refund_and_close_vault_full(tok, vault, maker_ata_a, amount) ==
    close_account(tok, vault)

\* Refund::refund_and_close_vault; `amount` is self.vault.amount
refund_and_close_vault(tok, vault, maker_ata_a, amount) ==
    LET w == transfer_checked(tok, vault, maker_ata_a, amount)
    IN  IF w.err # Ok THEN w ELSE close_account(w.tokens, vault)

\* destination: self.maker of the CloseAccount of the vault
refund_close_destination(maker) == maker

\* A has_one that accepts any maker.
refund_has_one_any_maker(e, maker, mint_a) == e.mint_a = mint_a

\* has_one = mint_a, has_one = maker
refund_has_one(e, maker, mint_a) == e.mint_a = mint_a /\ e.maker = maker

\* A Refund context that checks neither the maker nor the seeds of the escrow.
refund_unchecked(l, maker, mint_a, key) ==
    IF associated_token(maker, mint_a) \notin DOMAIN l.tokens
    THEN Rejected(l, "AccountNotInitialized")
    ELSE IF key \notin DOMAIN l.escrows THEN Rejected(l, "AccountNotInitialized")
    ELSE IF associated_token(key, mint_a) \notin DOMAIN l.tokens
    THEN Rejected(l, "AccountNotInitialized")
    ELSE LET vault == associated_token(key, mint_a)
             w == refund_and_close_vault(l.tokens, vault, associated_token(maker, mint_a),
                                         l.tokens[vault])
         IN  IF w.err # Ok THEN Rejected(l, w.err)
             ELSE Accepted(close_escrow(l.escrows, key), w.tokens)

\* The Refund context and its handler.
refund(l, maker, mint_a, key) ==
    IF associated_token(maker, mint_a) \notin DOMAIN l.tokens
    THEN Rejected(l, "AccountNotInitialized")
    ELSE IF key \notin DOMAIN l.escrows THEN Rejected(l, "AccountNotInitialized")
    ELSE IF associated_token(key, mint_a) \notin DOMAIN l.tokens
    THEN Rejected(l, "AccountNotInitialized")
    ELSE IF ~refund_has_one(l.escrows[key], maker, mint_a)
    THEN Rejected(l, "ConstraintHasOne")
    ELSE IF create_program_address(escrow_seeds(maker, l.escrows[key].seed),
                                   l.escrows[key].bump) # key
    THEN Rejected(l, "ConstraintSeeds")
    ELSE LET vault == associated_token(key, mint_a)
             w == refund_and_close_vault(l.tokens, vault, associated_token(maker, mint_a),
                                         l.tokens[vault])
         IN  IF w.err # Ok THEN Rejected(l, w.err)
             ELSE Accepted(close_escrow(l.escrows, key), w.tokens)

\* ------------------------------------------------------------ specification
\* What a party holds of a mint: nothing without a token account.
Balance(tok, owner, mint) ==
    IF associated_token(owner, mint) \in DOMAIN tok THEN tok[associated_token(owner, mint)] ELSE 0

\* What the token accounts owned by an escrow address hold.
VaultBalance(tok, key) == Balance(tok, key, "TokenX") + Balance(tok, key, "TokenY")
VaultAmount(key) == VaultBalance(tokens, key)

NoPrior == [op |-> "none", signer |-> "none", escrow |-> "none"]

\* What the instruction before this one did, when it succeeded on the same escrow.
Prior(key) ==
    IF last.err = Ok /\ last.escrow = key
    THEN [op |-> last.op, signer |-> last.signer, escrow |-> key]
    ELSE NoPrior

\* The transaction commits what the instruction returned.  `last` keeps the signer
\* and the outcome of every instruction and, of a successful one, the escrow, the
\* amount that entered or left its vault and who received the lamports of the vault
\* it closed.
Commit(op, signer, key, r, amount, rent_to) ==
    /\ escrows' = r.escrows
    /\ tokens' = r.tokens
    /\ last' = [op |-> op, signer |-> signer, err |-> r.err,
                escrow |-> IF r.err = Ok THEN key ELSE "none",
                amount |-> IF r.err = Ok THEN amount ELSE 0,
                rent_to |-> IF r.err = Ok THEN rent_to ELSE "none",
                prior |-> Prior(key)]

InitTokens ==
    (associated_token("alice", "TokenX") :> InitBalance) @@
    (associated_token("bob", "TokenY") :> InitBalance) @@
    (associated_token("carol", "TokenX") :> 0) @@
    (associated_token("carol", "TokenY") :> InitBalance)

Init ==
    /\ escrows = <<>>
    /\ tokens = InitTokens
    /\ deposited = <<>>
    /\ payer = <<>>
    /\ last = [op |-> "none", signer |-> "none", err |-> Ok, escrow |-> "none",
               amount |-> 0, rent_to |-> "none", prior |-> NoPrior]

\* The three instructions, signed by the given users, on the given seeds or escrow
\* addresses, with at most `cap` escrows open.
MakeOf(users, seeds, cap) ==
    \E maker \in users, seed \in seeds, mint_a \in Mints, mint_b \in Mints,
       deposit \in Amounts, receive \in Amounts :
        LET key == Pda[maker, seed].address
            r == make(Ledger, maker, seed, mint_a, mint_b, deposit, receive)
        IN  /\ key \in DOMAIN escrows \/ Cardinality(DOMAIN escrows) < cap
            /\ Commit("make", maker, key, r, deposit, "none")
            /\ deposited' = IF r.err = Ok THEN (key :> deposit) @@ deposited ELSE deposited
            /\ payer' = IF r.err = Ok THEN (key :> vault_payer(maker)) @@ payer ELSE payer

TakeOf(users, keys) ==
    \E taker \in users, maker \in users, mint_a \in Mints, mint_b \in Mints, key \in keys :
        LET r == take(Ledger, taker, maker, mint_a, mint_b, key)
        IN  /\ Commit("take", taker, key, r, VaultAmount(key),
                      take_close_destination(taker, maker))
            /\ deposited' = [k \in DOMAIN r.escrows |-> deposited[k]]
            /\ payer' = [k \in DOMAIN r.escrows |-> payer[k]]

RefundOf(users, keys) ==
    \E maker \in users, mint_a \in Mints, key \in keys :
        LET r == refund(Ledger, maker, mint_a, key)
        IN  /\ Commit("refund", maker, key, r, VaultAmount(key),
                      refund_close_destination(maker))
            /\ deposited' = [k \in DOMAIN r.escrows |-> deposited[k]]
            /\ payer' = [k \in DOMAIN r.escrows |-> payer[k]]

Make == MakeOf(Users, Seeds, MaxOpen)
Take == TakeOf(Users, EscrowKeys)
Refund == RefundOf(Users, EscrowKeys)

Next == Make \/ Take \/ Refund

Spec == Init /\ [][Next]_vars

\* One maker, one other party and several seeds: the maker can have more than one
\* escrow open.
MakePair == MakeOf(PairMakers, PairSeeds, MaxPairOpen)
TakePair == TakeOf(PairUsers, PairKeys)
RefundPair == RefundOf(PairUsers, PairKeys)

NextPair == MakePair \/ TakePair \/ RefundPair

SpecPair == Init /\ [][NextPair]_vars

\* ------------------------------------------------------------------- claims
Unchanged(r) == r.escrows = escrows /\ r.tokens = tokens

\* The mints of the token accounts an escrow address owns.
VaultsIn(tok, key) == {m \in Mints : associated_token(key, m) \in DOMAIN tok}
VaultsOf(key) == VaultsIn(tokens, key)

\* The maker an escrow address is derived from.
MakerOf(key) == CHOOSE m \in Users : \E s \in Seeds \cup PairSeeds : Pda[m, s].address = key

\* C1 as stated: an escrow record exists at an address if and only if the address
\* owns a vault that holds a non-zero balance.
C1_PairingNonEmpty ==
    \A key \in EscrowKeys :
        key \in DOMAIN escrows <=>
            \E m \in Mints : Balance(tokens, key, m) > 0 /\ associated_token(key, m) \in DOMAIN tokens

\* C1 amended: an escrow record exists at an address if and only if its vault exists;
\* the vault is the token account of the record's mint_a, it is the only token
\* account the address owns, and it holds the amount deposited at make, which may be 0.
C1_Pairing ==
    \A key \in EscrowKeys :
        /\ key \in DOMAIN escrows =>
              /\ VaultsOf(key) = {escrows[key].mint_a}
              /\ key \in DOMAIN deposited
              /\ tokens[associated_token(key, escrows[key].mint_a)] = deposited[key]
        /\ key \notin DOMAIN escrows => VaultsOf(key) = {} /\ key \notin DOMAIN deposited

\* An escrow is open on an empty vault: it was made with a deposit of 0.
C1_Witness ==
    /\ last.op = "make" /\ last.err = Ok /\ last.amount = 0
    /\ last.escrow \in DOMAIN escrows
    /\ tokens[associated_token(last.escrow, escrows[last.escrow].mint_a)] = 0

\* The step is a successful take.
TakeOk == last'.op = "take" /\ last'.err = Ok

\* C2 as stated: a successful take adds the deposit to the taker's mint_a balance,
\* adds receive to the maker's mint_b balance, takes receive from the taker's mint_b
\* balance, and changes no other balance of any party.
C2_ConservationAsStated ==
    [][TakeOk =>
        LET key == last'.escrow
            e == escrows[key]
            taker == last'.signer
        IN  /\ Balance(tokens', taker, e.mint_a) = Balance(tokens, taker, e.mint_a) + deposited[key]
            /\ Balance(tokens', e.maker, e.mint_b) = Balance(tokens, e.maker, e.mint_b) + e.receive
            /\ Balance(tokens', taker, e.mint_b) = Balance(tokens, taker, e.mint_b) - e.receive
            /\ \A u \in Users, m \in Mints :
                  <<u, m>> \notin {<<taker, e.mint_a>>, <<e.maker, e.mint_b>>, <<taker, e.mint_b>>}
                  => Balance(tokens', u, m) = Balance(tokens, u, m)
      ]_vars

\* What a successful take of the escrow e by the taker adds to the balance of u in m:
\* the deposit to the taker in mint_a, and receive from the taker to the maker in mint_b.
TakeDelta(e, deposit, taker, u, m) ==
    (IF u = taker /\ m = e.mint_a THEN deposit ELSE 0)
    + (IF u = e.maker /\ m = e.mint_b THEN e.receive ELSE 0)
    - (IF u = taker /\ m = e.mint_b THEN e.receive ELSE 0)

\* C2 amended: a successful take moves the amount deposited at make from the vault
\* to the taker in mint_a and receive from the taker to the maker in mint_b; every
\* balance changes by the sum of what the two transfers give and take from it (the
\* payment nets to nothing when the taker is the maker, and the taker's one balance
\* changes by deposit - receive when mint_a = mint_b); the vault is gone and no
\* other token account changes.
C2_Conservation ==
    [][TakeOk =>
        LET key == last'.escrow
            e == escrows[key]
            taker == last'.signer
        IN  /\ last'.amount = deposited[key]
            /\ \A u \in Users, m \in Mints :
                  Balance(tokens', u, m)
                      = Balance(tokens, u, m) + TakeDelta(e, deposited[key], taker, u, m)
            /\ VaultsIn(tokens', key) = {}
            /\ \A k \in EscrowKeys \ {key}, m \in Mints :
                  /\ associated_token(k, m) \in DOMAIN tokens' <=> associated_token(k, m) \in DOMAIN tokens
                  /\ Balance(tokens', k, m) = Balance(tokens, k, m)
      ]_vars

\* A maker has taken their own funded escrow.
C2_Witness ==
    /\ last.op = "take" /\ last.err = Ok /\ last.amount > 0
    /\ MakerOf(last.escrow) = last.signer

\* C3: a take whose payment cannot be made, because the taker holds less than
\* receive of the record's mint_b or names another mint_b, is rejected and leaves
\* the escrow record, the vault and every token account as they were; with every
\* other account in order the error is InsufficientFunds.
C3_PaymentBeforeRelease ==
    \A key \in DOMAIN escrows, taker \in Users, maker \in Users, mint_a \in Mints, mint_b \in Mints :
        LET e == escrows[key]
            r == take(Ledger, taker, maker, mint_a, mint_b, key)
        IN  /\ (mint_b # e.mint_b \/ Balance(tokens, taker, e.mint_b) < e.receive)
                  => r.err # Ok /\ Unchanged(r)
            /\ (/\ take_has_one(e, maker, mint_a, mint_b)
                /\ associated_token(taker, mint_b) \in DOMAIN tokens
                /\ tokens[associated_token(taker, mint_b)] < e.receive)
                  => r.err = "InsufficientFunds"

\* A take was rejected for the taker's funds, and the escrow is still open on its
\* funded vault.
C3_Witness ==
    /\ last.op = "take" /\ last.err = "InsufficientFunds"
    /\ \E key \in DOMAIN escrows :
          /\ escrows[key].receive > 0
          /\ tokens[associated_token(key, escrows[key].mint_a)] = deposited[key]
\* What the vault of an escrow address lost in the step.
VaultDecreased(k) == VaultBalance(tokens', k) < VaultBalance(tokens, k)

\* C4 as stated: a step in which a vault's balance decreases is a successful refund
\* signed by the record's maker, or a successful take in which the maker's mint_b
\* balance rose by the record's receive.
C4_CustodyAsStated ==
    [][\A k \in EscrowKeys : VaultDecreased(k) =>
        LET e == escrows[k]
        IN  /\ k \in DOMAIN escrows /\ last'.err = Ok /\ last'.escrow = k
            /\ \/ last'.op = "refund" /\ last'.signer = e.maker
               \/ /\ last'.op = "take"
                  /\ Balance(tokens', e.maker, e.mint_b)
                        = Balance(tokens, e.maker, e.mint_b) + e.receive
      ]_vars

\* C4 amended: a step in which a vault's balance decreases is a successful refund
\* signed by the record's maker, which adds the deposit to the maker's mint_a
\* balance, or a successful take whose taker held at least receive of mint_b and in
\* which receive moved from the taker to the maker in mint_b and the deposit to the
\* taker in mint_a; the maker's mint_b balance rises by receive when the taker is
\* another party, and the payment nets to nothing when the maker is the taker.
C4_Custody ==
    [][\A k \in EscrowKeys : VaultDecreased(k) =>
        LET e == escrows[k]
            signer == last'.signer
        IN  /\ k \in DOMAIN escrows /\ last'.err = Ok /\ last'.escrow = k
            /\ \/ /\ last'.op = "refund" /\ signer = e.maker
                  /\ Balance(tokens', e.maker, e.mint_a)
                        = Balance(tokens, e.maker, e.mint_a) + deposited[k]
               \/ /\ last'.op = "take"
                  /\ Balance(tokens, signer, e.mint_b) >= e.receive
                  /\ \A m \in {e.mint_a, e.mint_b} :
                        /\ Balance(tokens', e.maker, m)
                              = Balance(tokens, e.maker, m) + TakeDelta(e, deposited[k], signer, e.maker, m)
                        /\ Balance(tokens', signer, m)
                              = Balance(tokens, signer, m) + TakeDelta(e, deposited[k], signer, signer, m)
                  /\ signer # e.maker =>
                        Balance(tokens', e.maker, e.mint_b)
                            = Balance(tokens, e.maker, e.mint_b) + e.receive
      ]_vars

\* A party other than the maker has taken a funded escrow.
C4_Witness ==
    /\ last.op = "take" /\ last.err = Ok /\ last.amount > 0
    /\ MakerOf(last.escrow) # last.signer

NotFoundUnchanged(r) == r.err = "AccountNotInitialized" /\ Unchanged(r)

\* C6: a successful take or refund closes the escrow; while an escrow address is
\* closed, as it is after a successful refund or take until the next make, every
\* take and every refund on it is rejected with AccountNotInitialized and changes
\* nothing.
C6_MutualExclusivity ==
    /\ (last.err = Ok /\ last.op \in {"take", "refund"}) => last.escrow \notin DOMAIN escrows
    /\ \A key \in EscrowKeys \ DOMAIN escrows :
          /\ \A taker \in Users, maker \in Users, mint_a \in Mints, mint_b \in Mints :
                NotFoundUnchanged(take(Ledger, taker, maker, mint_a, mint_b, key))
          /\ \A maker \in Users, mint_a \in Mints :
                NotFoundUnchanged(refund(Ledger, maker, mint_a, key))

\* A take was rejected on the escrow that the instruction before it refunded.
C6_Witness ==
    /\ last.op = "take" /\ last.err = "AccountNotInitialized"
    /\ last.prior.op = "refund"
    /\ last.prior.escrow \notin DOMAIN escrows

\* What the users hold of a mint, all together.
UserTotal(tok, m) == Balance(tok, "alice", m) + Balance(tok, "bob", m) + Balance(tok, "carol", m)

\* C7: when a take and a refund would each succeed on the same open escrow, in
\* either order the first succeeds and closes the escrow, the second is rejected
\* with AccountNotInitialized and changes nothing, and the deposit has left the
\* vault once: to the taker when the take is first, to the maker when the refund is.
C7_RacingTerminalOperations ==
    \A key \in DOMAIN escrows, taker \in Users :
        LET e == escrows[key]
            t == take(Ledger, taker, e.maker, e.mint_a, e.mint_b, key)
            c == refund(Ledger, e.maker, e.mint_a, key)
            ct == refund([escrows |-> t.escrows, tokens |-> t.tokens], e.maker, e.mint_a, key)
            tc == take([escrows |-> c.escrows, tokens |-> c.tokens], taker, e.maker,
                       e.mint_a, e.mint_b, key)
        IN  (t.err = Ok /\ c.err = Ok) =>
              /\ key \notin DOMAIN t.escrows /\ key \notin DOMAIN c.escrows
              /\ ct.err = "AccountNotInitialized"
              /\ ct.escrows = t.escrows /\ ct.tokens = t.tokens
              /\ tc.err = "AccountNotInitialized"
              /\ tc.escrows = c.escrows /\ tc.tokens = c.tokens
              /\ VaultsIn(ct.tokens, key) = {} /\ VaultsIn(tc.tokens, key) = {}
              /\ \A u \in Users, m \in Mints :
                    /\ Balance(ct.tokens, u, m)
                          = Balance(tokens, u, m) + TakeDelta(e, deposited[key], taker, u, m)
                    /\ Balance(tc.tokens, u, m)
                          = Balance(tokens, u, m)
                            + (IF u = e.maker /\ m = e.mint_a THEN deposited[key] ELSE 0)
              /\ UserTotal(ct.tokens, e.mint_a) = UserTotal(tokens, e.mint_a) + deposited[key]
              /\ UserTotal(tc.tokens, e.mint_a) = UserTotal(tokens, e.mint_a) + deposited[key]

\* The maker's refund was rejected on the escrow that another party's take, the
\* instruction before it, had emptied.
C7_Witness ==
    /\ last.op = "refund" /\ last.err = "AccountNotInitialized"
    /\ last.prior.op = "take"
    /\ last.signer = MakerOf(last.prior.escrow)
    /\ last.prior.signer # last.signer

\* The step is a successful take or refund.
TerminalOk == last'.err = Ok /\ last'.op \in {"take", "refund"}

\* C8: a take or refund succeeds only on an open escrow and closes it, an escrow is
\* closed only by a successful take or refund on it, and a closed address is opened
\* only by a successful make on it, so between two makes of an address at most one
\* take or refund succeeds; a take that follows a successful take of the same
\* escrow is rejected and changes no escrow and no token account.
C8_ExactlyOneTerminalOperation ==
    [][/\ TerminalOk => last'.escrow \in DOMAIN escrows /\ last'.escrow \notin DOMAIN escrows'
       /\ \A k \in EscrowKeys :
             /\ (k \in DOMAIN escrows /\ k \notin DOMAIN escrows')
                   => TerminalOk /\ last'.escrow = k
             /\ (k \notin DOMAIN escrows /\ k \in DOMAIN escrows')
                   => last'.op = "make" /\ last'.err = Ok /\ last'.escrow = k
             /\ (k \in DOMAIN escrows /\ k \in DOMAIN escrows') => escrows'[k] = escrows[k]
       /\ (last'.op = "take" /\ last'.prior.op = "take")
             => /\ last'.err = "AccountNotInitialized"
                /\ escrows' = escrows /\ tokens' = tokens
      ]_vars

\* A second taker's take was rejected on the escrow that the first taker's take,
\* the instruction before it, had consumed.
C8_Witness ==
    /\ last.op = "take" /\ last.err = "AccountNotInitialized"
    /\ last.prior.op = "take"
    /\ last.prior.signer # last.signer
    /\ last.prior.signer # MakerOf(last.prior.escrow)
    /\ last.signer # MakerOf(last.prior.escrow)

\* C9: a make either succeeds, and then the escrow record with the given terms and
\* its vault both exist, the vault holds the deposit and the maker's mint_a balance
\* fell by it, or it is rejected and creates neither and changes no balance; a
\* maker who holds less than the deposit is rejected with InsufficientFunds; and in
\* every state an escrow address has a record exactly when it owns a vault.
C9_AtomicOpen ==
    /\ \A maker \in Users, seed \in Seeds, mint_a \in Mints, mint_b \in Mints,
          deposit \in Amounts, receive \in Amounts :
          LET key == Pda[maker, seed].address
              vault == associated_token(key, mint_a)
              maker_ata_a == associated_token(maker, mint_a)
              r == make(Ledger, maker, seed, mint_a, mint_b, deposit, receive)
          IN  /\ r.err = Ok =>
                    /\ key \notin DOMAIN escrows /\ key \in DOMAIN r.escrows
                    /\ r.escrows[key] = [seed |-> seed, maker |-> maker, mint_a |-> mint_a,
                                         mint_b |-> mint_b, receive |-> receive,
                                         bump |-> Pda[maker, seed].bump]
                    /\ VaultsIn(r.tokens, key) = {mint_a}
                    /\ r.tokens[vault] = deposit
                    /\ r.tokens[maker_ata_a] = tokens[maker_ata_a] - deposit
              /\ r.err # Ok => Unchanged(r)
              /\ (/\ maker_ata_a \in DOMAIN tokens
                  /\ key \notin DOMAIN escrows
                  /\ tokens[maker_ata_a] < deposit) => r.err = "InsufficientFunds"
    /\ \A key \in EscrowKeys : key \in DOMAIN escrows <=> VaultsOf(key) # {}

\* A make was rejected for the maker's funds, and the address it named has neither
\* a record nor a vault.
C9_Witness ==
    /\ last.op = "make" /\ last.err = "InsufficientFunds"
    /\ \E s \in Seeds :
          /\ Pda[last.signer, s].address \notin DOMAIN escrows
          /\ VaultsOf(Pda[last.signer, s].address) = {}

LedgerOf(r) == [escrows |-> r.escrows, tokens |-> r.tokens]

\* C11: a successful make takes exactly the deposit from the maker's mint_a token
\* account, leaves the new vault holding exactly the deposit, and saves a record
\* whose seed, maker, mint_a, mint_b and receive are the arguments; no other token
\* account and no other escrow changes.
C11_OpenPostcondition ==
    \A maker \in Users, seed \in Seeds, mint_a \in Mints, mint_b \in Mints,
       deposit \in Amounts, receive \in Amounts :
        LET key == Pda[maker, seed].address
            vault == associated_token(key, mint_a)
            maker_ata_a == associated_token(maker, mint_a)
            r == make(Ledger, maker, seed, mint_a, mint_b, deposit, receive)
        IN  r.err = Ok =>
              /\ r.tokens[maker_ata_a] = tokens[maker_ata_a] - deposit
              /\ vault \notin DOMAIN tokens /\ r.tokens[vault] = deposit
              /\ DOMAIN r.tokens = DOMAIN tokens \cup {vault}
              /\ \A a \in DOMAIN tokens \ {maker_ata_a} : r.tokens[a] = tokens[a]
              /\ r.escrows[key].seed = seed /\ r.escrows[key].maker = maker
              /\ r.escrows[key].mint_a = mint_a /\ r.escrows[key].mint_b = mint_b
              /\ r.escrows[key].receive = receive
              /\ DOMAIN r.escrows = DOMAIN escrows \cup {key}
              /\ \A k \in DOMAIN escrows : k # key /\ r.escrows[k] = escrows[k]

\* A make has just moved a deposit into the vault of the record it saved.
C11_Witness ==
    /\ last.op = "make" /\ last.err = Ok /\ last.amount > 0
    /\ last.escrow \in DOMAIN escrows
    /\ escrows[last.escrow].maker = last.signer
    /\ tokens[associated_token(last.escrow, escrows[last.escrow].mint_a)] = last.amount

\* C12: a refund by the maker of an open escrow succeeds, adds the vault's whole
\* balance to the maker's mint_a token account and removes the vault and the
\* record; a make followed by the maker's refund leaves every token account and
\* every escrow as before the make, and a take on that address is then rejected
\* with AccountNotInitialized.
C12_OpenCancelRoundTrip ==
    /\ \A key \in DOMAIN escrows :
          LET e == escrows[key]
              vault == associated_token(key, e.mint_a)
              maker_ata_a == associated_token(e.maker, e.mint_a)
              c == refund(Ledger, e.maker, e.mint_a, key)
          IN  /\ c.err = Ok
              /\ c.tokens[maker_ata_a] = tokens[maker_ata_a] + tokens[vault]
              /\ DOMAIN c.tokens = DOMAIN tokens \ {vault}
              /\ \A a \in DOMAIN c.tokens \ {maker_ata_a} : c.tokens[a] = tokens[a]
              /\ DOMAIN c.escrows = DOMAIN escrows \ {key}
    /\ \A maker \in Users, seed \in Seeds, mint_a \in Mints, mint_b \in Mints,
          deposit \in Amounts, receive \in Amounts :
          LET key == Pda[maker, seed].address
              r == make(Ledger, maker, seed, mint_a, mint_b, deposit, receive)
              c == refund(LedgerOf(r), maker, mint_a, key)
          IN  r.err = Ok =>
                /\ c.err = Ok /\ c.tokens = tokens /\ c.escrows = escrows
                /\ \A taker \in Users :
                      take(LedgerOf(c), taker, maker, mint_a, mint_b, key).err
                          = "AccountNotInitialized"

\* The maker has refunded the funded escrow that the instruction before it made,
\* and every token account is as it was at the start.
C12_Witness ==
    /\ last.op = "refund" /\ last.err = Ok /\ last.amount > 0
    /\ last.prior.op = "make" /\ last.prior.signer = last.signer
    /\ tokens = InitTokens /\ escrows = <<>>

\* C13 as stated: a successful take or refund credits the lamports of the vault it
\* closes to the party who paid for the vault at make, the maker.
C13_RentToPayer ==
    [][TerminalOk => last'.rent_to = payer[last'.escrow]]_vars

\* What the program does with the lamports of the vault: a refund credits them to
\* the maker, who paid for the vault, and a take credits them to the taker.
C13_RentDestination ==
    [][TerminalOk =>
        /\ payer[last'.escrow] = escrows[last'.escrow].maker
        /\ last'.op = "refund" => last'.rent_to = payer[last'.escrow]
        /\ last'.op = "take" => last'.rent_to = last'.signer
      ]_vars

\* A take by another party than the maker has closed a vault, and the vault's
\* lamports went to the taker.
C13_Witness ==
    /\ last.op = "take" /\ last.err = Ok
    /\ last.rent_to = last.signer
    /\ last.rent_to # MakerOf(last.escrow)

\* C14: while an escrow record exists its vault holds the deposit given at the make
\* that opened it; from one state to the next the vault of an escrow that stays
\* open keeps its balance, and a vault's balance changes only in the successful
\* make that creates and funds it and in the successful take or refund that
\* empties and destroys it.
C14_VaultBalanceFixed ==
    [][\A k \in EscrowKeys :
        /\ k \in DOMAIN escrows =>
              Balance(tokens, k, escrows[k].mint_a) = deposited[k]
        /\ (k \in DOMAIN escrows /\ k \in DOMAIN escrows') =>
              /\ deposited'[k] = deposited[k]
              /\ VaultsIn(tokens', k) = VaultsIn(tokens, k)
              /\ \A m \in Mints : Balance(tokens', k, m) = Balance(tokens, k, m)
        /\ (\E m \in Mints : Balance(tokens', k, m) # Balance(tokens, k, m)) =>
              /\ last'.err = Ok /\ last'.escrow = k
              /\ \/ /\ last'.op = "make"
                    /\ VaultsIn(tokens, k) = {}
                    /\ VaultBalance(tokens', k) = deposited'[k]
                 \/ /\ last'.op \in {"take", "refund"}
                    /\ VaultBalance(tokens, k) = deposited[k]
                    /\ VaultsIn(tokens', k) = {}
      ]_vars

\* An instruction was rejected while an escrow is open, and the vault of the escrow
\* holds the deposit it was opened with.
C14_Witness ==
    /\ last.err # Ok
    /\ \E key \in DOMAIN escrows :
          /\ deposited[key] > 0
          /\ tokens[associated_token(key, escrows[key].mint_a)] = deposited[key]

\* C15 as stated: for every open escrow, a take by any party who holds at least
\* receive of the record's mint_b, naming the record's maker, mint_a and mint_b,
\* succeeds.
C15_PermissionlessAsStated ==
    \A key \in DOMAIN escrows, taker \in Users :
        LET e == escrows[key]
        IN  Balance(tokens, taker, e.mint_b) >= e.receive
              => take(Ledger, taker, e.maker, e.mint_a, e.mint_b, key).err = Ok

\* C15 amended: for every open escrow, a take by any party who has a token account
\* of the record's mint_b that holds at least receive, naming the record's maker,
\* mint_a and mint_b, succeeds, closes the escrow and gives the taker the deposit;
\* a party without a mint_b token account is rejected with AccountNotInitialized,
\* also when receive is 0.
C15_Permissionless ==
    \A key \in DOMAIN escrows, taker \in Users :
        LET e == escrows[key]
            taker_ata_b == associated_token(taker, e.mint_b)
            r == take(Ledger, taker, e.maker, e.mint_a, e.mint_b, key)
        IN  /\ (taker_ata_b \in DOMAIN tokens /\ tokens[taker_ata_b] >= e.receive) =>
                  /\ r.err = Ok
                  /\ key \notin DOMAIN r.escrows
                  /\ Balance(r.tokens, taker, e.mint_a)
                        = Balance(tokens, taker, e.mint_a)
                          + TakeDelta(e, deposited[key], taker, taker, e.mint_a)
            /\ taker_ata_b \notin DOMAIN tokens => r.err = "AccountNotInitialized"

\* A party other than the maker has taken the escrow that the instruction before
\* it made.
C15_Witness ==
    /\ last.op = "take" /\ last.err = Ok
    /\ last.prior.op = "make"
    /\ last.prior.signer # last.signer
    /\ last.prior.signer = MakerOf(last.escrow)

\* C16: a take that names a maker, a mint_a or a mint_b other than the one stored
\* in the escrow it addresses is rejected and leaves the record, the vault and
\* every token account as they were; when the taker's mint_b token account and the
\* vault of the named mint_a exist, the error is ConstraintHasOne.
C16_FulfillRevalidates ==
    \A key \in DOMAIN escrows, taker \in Users, maker \in Users,
       mint_a \in Mints, mint_b \in Mints :
        LET e == escrows[key]
            r == take(Ledger, taker, maker, mint_a, mint_b, key)
        IN  (maker # e.maker \/ mint_a # e.mint_a \/ mint_b # e.mint_b) =>
              /\ r.err # Ok /\ Unchanged(r)
              /\ r.escrows[key] = e
              /\ (/\ associated_token(taker, mint_b) \in DOMAIN tokens
                  /\ associated_token(key, mint_a) \in DOMAIN tokens)
                    => r.err = "ConstraintHasOne"

\* A take was rejected for naming another maker or mint than the record's, and the
\* escrow is still open on its funded vault.
C16_Witness ==
    /\ last.op = "take" /\ last.err = "ConstraintHasOne"
    /\ \E key \in DOMAIN escrows :
          /\ deposited[key] > 0
          /\ tokens[associated_token(key, escrows[key].mint_a)] = deposited[key]

\* C17: a maker with an escrow open under one seed can make another under a seed
\* they have no open escrow for, whenever the make would succeed on its own; and
\* every make, take or refund, successful or rejected, leaves the record, the vault
\* and the vault's balance of every escrow other than the one it succeeded on as
\* they were.
C17_IndependentEscrows ==
    [][/\ \A k1 \in DOMAIN escrows, seed \in PairSeeds, mint_a \in Mints, mint_b \in Mints,
             deposit \in Amounts, receive \in Amounts :
             LET maker == escrows[k1].maker
                 r == make(Ledger, maker, seed, mint_a, mint_b, deposit, receive)
             IN  (/\ \A k \in DOMAIN escrows :
                        ~(escrows[k].maker = maker /\ escrows[k].seed = seed)
                  /\ associated_token(maker, mint_a) \in DOMAIN tokens
                  /\ tokens[associated_token(maker, mint_a)] >= deposit)
                    => /\ r.err = Ok
                       /\ DOMAIN r.escrows = DOMAIN escrows \cup {Pda[maker, seed].address}
                       /\ Cardinality(DOMAIN r.escrows) = Cardinality(DOMAIN escrows) + 1
       /\ \A k \in PairKeys :
             (k \in DOMAIN escrows /\ last'.escrow # k) =>
                /\ k \in DOMAIN escrows' /\ escrows'[k] = escrows[k]
                /\ VaultsIn(tokens', k) = VaultsIn(tokens, k)
                /\ Balance(tokens', k, escrows[k].mint_a) = Balance(tokens, k, escrows[k].mint_a)
                /\ deposited'[k] = deposited[k]
      ]_vars

\* A take or refund has closed one escrow of a maker while another escrow of the
\* same maker, under another seed, is open on its funded vault.
C17_Witness ==
    /\ last.err = Ok /\ last.op \in {"take", "refund"}
    /\ \E k \in DOMAIN escrows :
          /\ k # last.escrow
          /\ escrows[k].maker = MakerOf(last.escrow)
          /\ deposited[k] > 0
          /\ tokens[associated_token(k, escrows[k].mint_a)] = deposited[k]

\* The maker's refund of the open escrow at `key` succeeds on the ledger l, gives
\* the maker the vault's balance and closes the escrow.
RefundSucceeds(l, key) ==
    LET e == l.escrows[key]
        c == refund(l, e.maker, e.mint_a, key)
    IN  /\ c.err = Ok
        /\ key \notin DOMAIN c.escrows
        /\ Balance(c.tokens, e.maker, e.mint_a)
              = Balance(l.tokens, e.maker, e.mint_a) + Balance(l.tokens, key, e.mint_a)

\* C18: in every state in which an escrow is open, a refund by its maker succeeds
\* and returns the vault's balance; an instruction that is rejected leaves every
\* open escrow open and its maker's refund still succeeding.
C18_FundsNeverStuck ==
    [][/\ \A key \in DOMAIN escrows : RefundSucceeds(Ledger, key)
       /\ \A key \in DOMAIN escrows' :
             RefundSucceeds([escrows |-> escrows', tokens |-> tokens'], key)
       /\ last'.err # Ok => DOMAIN escrows' = DOMAIN escrows
      ]_vars

\* The maker's refund of a funded escrow succeeded although the instruction before
\* it was rejected.
C18_Witness ==
    /\ last.op = "refund" /\ last.err = Ok /\ last.amount > 0
    /\ last.signer = MakerOf(last.escrow)
    /\ last.prior = NoPrior

\* What the token accounts in `accounts` hold, all together.
RECURSIVE SumOf(_, _)
SumOf(tok, accounts) ==
    IF accounts = {} THEN 0
    ELSE LET a == CHOOSE x \in accounts : TRUE
         IN  tok[a] + SumOf(tok, accounts \ {a})

\* The supply of a mint: what all its token accounts, of users and of escrows, hold.
Supply(tok, m) == SumOf(tok, {a \in DOMAIN tok : a[2] = m})

\* C19: in every reachable state the token accounts of each mint, vaults included,
\* hold together what they held at the start, no amount is negative, and the
\* outcome of every make, take and refund, accepted or rejected, holds the same.
C19_SupplyConservation ==
    \A m \in Mints :
        /\ Supply(tokens, m) = Supply(InitTokens, m)
        /\ \A a \in DOMAIN tokens : tokens[a] >= 0
        /\ \A u \in Users, mint_a \in Mints, key \in EscrowKeys :
              /\ Supply(refund(Ledger, u, mint_a, key).tokens, m) = Supply(tokens, m)
              /\ \A maker \in Users, mint_b \in Mints :
                    Supply(take(Ledger, u, maker, mint_a, mint_b, key).tokens, m)
                        = Supply(tokens, m)
        /\ \A maker \in Users, seed \in Seeds, mint_a \in Mints, mint_b \in Mints,
              deposit \in Amounts, receive \in Amounts :
              Supply(make(Ledger, maker, seed, mint_a, mint_b, deposit, receive).tokens, m)
                  = Supply(tokens, m)

\* A take or refund has emptied and closed a funded vault.
C19_Witness ==
    /\ last.op \in {"take", "refund"} /\ last.err = Ok /\ last.amount > 0
    /\ VaultsOf(last.escrow) = {}
    /\ Supply(tokens, "TokenX") = Supply(InitTokens, "TokenX")

\* C20: a successful take or refund leaves neither the record nor a vault at the
\* escrow's address; and at every address without a record, whether it was never
\* opened or was closed by a take or a refund, a make by its maker with any mints,
\* any receive and any deposit the maker's mint_a token account covers succeeds
\* and stores the new terms, and no make on it is rejected with AccountAlreadyInUse.
C20_AddressReusable ==
    /\ (last.err = Ok /\ last.op \in {"take", "refund"}) =>
          last.escrow \notin DOMAIN escrows /\ VaultsOf(last.escrow) = {}
    /\ \A maker \in Users, seed \in Seeds, mint_a \in Mints, mint_b \in Mints,
          deposit \in Amounts, receive \in Amounts :
          LET key == Pda[maker, seed].address
              maker_ata_a == associated_token(maker, mint_a)
              r == make(Ledger, maker, seed, mint_a, mint_b, deposit, receive)
          IN  key \notin DOMAIN escrows =>
                /\ r.err # "AccountAlreadyInUse"
                /\ (maker_ata_a \in DOMAIN tokens /\ tokens[maker_ata_a] >= deposit) =>
                      /\ r.err = Ok
                      /\ r.escrows[key].mint_a = mint_a /\ r.escrows[key].mint_b = mint_b
                      /\ r.escrows[key].receive = receive
                      /\ r.tokens[associated_token(key, mint_a)] = deposit

\* A make has reopened, with a funded vault, the address of the escrow that the
\* instruction before it closed.
C20_Witness ==
    /\ last.op = "make" /\ last.err = Ok /\ last.amount > 0
    /\ last.prior.op \in {"take", "refund"}
    /\ last.prior.escrow = last.escrow
    /\ last.escrow \in DOMAIN escrows

\* C21 as stated: on an address without a record, a make with any mints, any
\* receive and any deposit from 0 to what the maker holds of mint_a succeeds and
\* stores those terms; and a take of an escrow whose receive is 0 succeeds for a
\* taker who holds nothing of the record's mint_b.
C21_NoTermValidationAsStated ==
    /\ \A maker \in Users, seed \in Seeds, mint_a \in Mints, mint_b \in Mints,
          deposit \in Amounts, receive \in Amounts :
          LET key == Pda[maker, seed].address
              r == make(Ledger, maker, seed, mint_a, mint_b, deposit, receive)
          IN  (key \notin DOMAIN escrows /\ deposit <= Balance(tokens, maker, mint_a))
                => r.err = Ok
    /\ \A key \in DOMAIN escrows, taker \in Users :
          LET e == escrows[key]
          IN  (e.receive = 0 /\ Balance(tokens, taker, e.mint_b) = 0)
                => take(Ledger, taker, e.maker, e.mint_a, e.mint_b, key).err = Ok

\* C21 amended: on an address without a record, a make by a maker who has a mint_a
\* token account, with any mints, equal ones included, any receive, 0 included,
\* and any deposit from 0 to what that account holds, succeeds and stores exactly
\* those terms; a take of an escrow whose receive is 0 succeeds for a taker whose
\* mint_b token account exists and holds nothing; a maker without a mint_a token
\* account and a taker without a mint_b token account are rejected with
\* AccountNotInitialized.
C21_NoTermValidation ==
    /\ \A maker \in Users, seed \in Seeds, mint_a \in Mints, mint_b \in Mints,
          deposit \in Amounts, receive \in Amounts :
          LET key == Pda[maker, seed].address
              maker_ata_a == associated_token(maker, mint_a)
              r == make(Ledger, maker, seed, mint_a, mint_b, deposit, receive)
          IN  key \notin DOMAIN escrows =>
                /\ (maker_ata_a \in DOMAIN tokens /\ deposit <= tokens[maker_ata_a]) =>
                      /\ r.err = Ok
                      /\ r.escrows[key] = [seed |-> seed, maker |-> maker, mint_a |-> mint_a,
                                           mint_b |-> mint_b, receive |-> receive,
                                           bump |-> Pda[maker, seed].bump]
                      /\ r.tokens[associated_token(key, mint_a)] = deposit
                /\ maker_ata_a \notin DOMAIN tokens => r.err = "AccountNotInitialized"
    /\ \A key \in DOMAIN escrows, taker \in Users :
          LET e == escrows[key]
              taker_ata_b == associated_token(taker, e.mint_b)
              t == take(Ledger, taker, e.maker, e.mint_a, e.mint_b, key)
          IN  e.receive = 0 =>
                /\ taker_ata_b \in DOMAIN tokens =>
                      /\ t.err = Ok /\ key \notin DOMAIN t.escrows
                      /\ Balance(t.tokens, taker, e.mint_a)
                            = Balance(tokens, taker, e.mint_a) + deposited[key]
                /\ taker_ata_b \notin DOMAIN tokens => t.err = "AccountNotInitialized"

\* A make has opened a funded escrow that trades a mint for itself at a price of
\* 0, and another party has an empty token account of that mint.
C21_Witness ==
    /\ last.op = "make" /\ last.err = Ok /\ last.amount > 0
    /\ last.escrow \in DOMAIN escrows
    /\ escrows[last.escrow].receive = 0
    /\ escrows[last.escrow].mint_a = escrows[last.escrow].mint_b
    /\ \E taker \in Users \ {last.signer} :
          /\ associated_token(taker, escrows[last.escrow].mint_b) \in DOMAIN tokens
          /\ tokens[associated_token(taker, escrows[last.escrow].mint_b)] = 0
====
